---- MODULE Spec2Model ----
(***************************************************************************)
(* Model of CryptoHistoricalData: the paginated fetch of candlesticks      *)
(* (fetch_historical_data, identical in main.py and web.py), the desktop   *)
(* shell that runs it on worker threads (main.py, HistoricalApp) and the   *)
(* web handler that exports it to a CSV file (web.py, index/download).     *)
(*                                                                         *)
(* Time.  Every time value is a count of milliseconds from the model's     *)
(* origin, which stands for 2023-01-01T00:00:00Z.  The code's conversions  *)
(* are affine in the epoch, so moving the origin from 1970 changes no      *)
(* comparison.  A naive datetime is the millisecond count of its wall      *)
(* clock fields; a "%Y-%m-%d %H:%M:%S" string is the count of whole        *)
(* seconds of its fields; the upstream reads such a string as UTC.         *)
(***************************************************************************)
EXTENDS Integers, Sequences, FiniteSets, TLC

VARIABLES
    tz,          \* UTC offset of the host's local time zone, in ms
    listed,      \* indices i of the candles the upstream holds (open time i * interval)
    pc,          \* per task: position in the task
    kind,        \* per task: "plot" | "save" | "direct" | "post"
    query,       \* per task: [symbol, interval, start_dt, end_dt] as passed to the fetch
    next_start,  \* per task: local `next_start` of fetch_historical_data
    klines,      \* per task: local `klines` of fetch_historical_data
    calls,       \* per task: log of the requests issued to the upstream
    batches,     \* per task: log of the upstream's answers to those requests
    outcome,     \* per task: how the fetch / task ended
    df,          \* per task: the DataFrame returned by the fetch
    sink,        \* per task: what the GUI task plotted or exported
    files,       \* web: CSV files in the working directory, by name
    csv_name,    \* per task: web: csv_name rendered into the response
    served       \* per task: web: what download(csv_name) sent to that client

vars == <<tz, listed, pc, kind, query, next_start, klines, calls, batches,
          outcome, df, sink, files, csv_name, served>>

\* ---------------------------------------------------------------- bounds
MaxIdx   == 4    \* candle indices and day/time indices range over 0..MaxIdx
MaxCalls == 3    \* requests one fetch may issue before the model stops following it
ConcIdx  == 1    \* largest candle index where two tasks run at once

\* ------------------------------------------------------------- constants
MsPerSec == 1000                 \* last_ts / 1000
Limit    == 1000                 \* limit=1000
OneMs    == 1                    \* timedelta(milliseconds=1)
HourMs   == 60 * 60 * MsPerSec
DayMs    == 24 * HourMs

Tasks     == {1, 2}
Symbols   == {"BTCUSDT", "ETHUSDT"}
Intervals == {"1h", "1d"}
TzOffsets == {0 - HourMs, 0, HourMs, 2 * HourMs}

IntervalMs(iv) == IF iv = "1h" THEN HourMs ELSE DayMs

Min(a, b) == IF a < b THEN a ELSE b

\* ------------------------------------------------------- time conversions
\* datetime.strftime("%Y-%m-%d %H:%M:%S"): the sub-second field is not printed.
Strftime(dt) == dt \div MsPerSec

\* The upstream reads a date string without zone as UTC.
ParseUtc(s) == s * MsPerSec

\* datetime.fromtimestamp(last_ts/1000): naive datetime in the host's local zone.
FromTimestamp(last_ts) == last_ts + tz

\* datetime.combine(date, datetime.min.time()): midnight of a calendar date.
Combine(day) == day * DayMs

\* datetime.fromtimestamp(last_ts/1000) + timedelta(milliseconds=1), with an
\* interval-wide step in place of the millisecond.
Advance_day(last_ts) == FromTimestamp(last_ts) + DayMs

\* datetime.fromtimestamp(last_ts/1000) + timedelta(milliseconds=1)
Advance(last_ts) == FromTimestamp(last_ts) + OneMs

\* --------------------------------------------------------------- upstream
\* One raw kline row of the upstream: open time, close time, and the payload
\* (prices, volumes), which is a function of the pair and interval it is for.
Kline(sym, iv, i) ==
    [src |-> <<sym, iv>>,
     timestamp |-> i * IntervalMs(iv),
     close_time |-> (i + 1) * IntervalMs(iv) - 1]

RECURSIVE Ascending(_)
Ascending(S) ==
    IF S = {} THEN <<>>
    ELSE LET m == CHOOSE x \in S : \A y \in S : x <= y
         IN  <<m>> \o Ascending(S \ {m})

\* The rows the upstream holds for a request: open time in [start, end), ascending.
Window(req) ==
    LET step == IntervalMs(req.interval)
        idx  == {i \in listed : req.start <= i * step /\ i * step < req.end}
        asc  == Ascending(idx)
    IN  [j \in 1..Len(asc) |-> Kline(req.symbol, req.interval, asc[j])]

\* client.get_historical_klines(symbol=, interval=, start_str=, end_str=, limit=1000)
Request(t) ==
    [symbol   |-> query[t].symbol,
     interval |-> query[t].interval,
     start    |-> ParseUtc(Strftime(next_start[t])),
     end      |-> ParseUtc(Strftime(query[t].end_dt))]

ApiMsg       == "APIError(code=-1121): Invalid symbol."
TransportMsg == "Connection aborted."

\* ------------------------------------------------------------ the Series
\* Lines 78-87: name the columns, drop close_time / ignore, index by timestamp.
Normalize(kl) ==
    [i \in 1..Len(kl) |-> [src |-> kl[i].src, timestamp |-> kl[i].timestamp]]

RECURSIVE Flatten(_)
Flatten(bs) == IF bs = <<>> THEN <<>> ELSE Head(bs) \o Flatten(Tail(bs))

NoQuery   == [symbol |-> "", interval |-> "", start_dt |-> 0, end_dt |-> 0]
NoOutcome == [type |-> "none", upstream |-> ""]
NoSink    == [to |-> "none", rows |-> <<>>]
NoFile    == [exists |-> FALSE, rows |-> <<>>]
NoName    == <<"", "">>
CsvNames  == Symbols \X Intervals

\* -------------------------------------------------------------- initial
InitCommon ==
    /\ tz \in TzOffsets
    /\ listed \in {0..hi : hi \in (0 - 1)..MaxIdx}
    /\ pc = [t \in Tasks |-> "idle"]
    /\ kind = [t \in Tasks |-> ""]
    /\ query = [t \in Tasks |-> NoQuery]
    /\ next_start = [t \in Tasks |-> 0]
    /\ klines = [t \in Tasks |-> <<>>]
    /\ calls = [t \in Tasks |-> <<>>]
    /\ batches = [t \in Tasks |-> <<>>]
    /\ outcome = [t \in Tasks |-> NoOutcome]
    /\ df = [t \in Tasks |-> <<>>]
    /\ sink = [t \in Tasks |-> NoSink]
    /\ files = [n \in CsvNames |-> NoFile]
    /\ csv_name = [t \in Tasks |-> NoName]
    /\ served = [t \in Tasks |-> NoFile]

Init == InitCommon

\* Two tasks at once are followed over a short listing.
InitConc ==
    /\ InitCommon
    /\ tz \in {0, HourMs}
    /\ listed = 0..ConcIdx

\* ---------------------------------------------------- fetch_historical_data
\* Entering the function: klines = [], next_start = start_dt.
EnterFetch(t, k, q) ==
    /\ kind' = [kind EXCEPT ![t] = k]
    /\ query' = [query EXCEPT ![t] = q]
    /\ klines' = [klines EXCEPT ![t] = <<>>]
    /\ next_start' = [next_start EXCEPT ![t] = q.start_dt]
    /\ pc' = [pc EXCEPT ![t] = "loop"]

\* klines.extend(batch) on a list shared by all fetches.
Extend_shared(t, batch) == [u \in Tasks |-> klines[u] \o batch]

\* klines.extend(batch)
Extend(t, batch) == [klines EXCEPT ![t] = @ \o batch]

CanRequest(t) ==
    /\ pc[t] = "loop"
    /\ next_start[t] < query[t].end_dt
    /\ Len(calls[t]) < MaxCalls

\* One iteration whose batch is not empty: the upstream hands out the k
\* earliest rows of the requested window, k at most the limit.
FetchRows(t) ==
    /\ CanRequest(t)
    /\ LET win == Window(Request(t))
       IN  \E k \in 1..Min(Len(win), Limit) :
             LET batch   == SubSeq(win, 1, k)
                 last_ts == batch[Len(batch)].timestamp
             IN  /\ calls' = [calls EXCEPT ![t] = Append(@, Request(t))]
                 /\ batches' = [batches EXCEPT ![t] = Append(@, batch)]
                 /\ klines' = Extend(t, batch)
                 /\ next_start' = [next_start EXCEPT ![t] = Advance(last_ts)]
    /\ UNCHANGED <<tz, listed, pc, kind, query, outcome, df, sink, files,
                   csv_name, served>>

\* An empty batch raises instead of ending the loop.
FetchNoRows_raise(t) ==
    /\ CanRequest(t)
    /\ calls' = [calls EXCEPT ![t] = Append(@, Request(t))]
    /\ batches' = [batches EXCEPT ![t] = Append(@, <<>>)]
    /\ outcome' = [outcome EXCEPT ![t] = [type |-> "RuntimeError", upstream |-> ""]]
    /\ pc' = [pc EXCEPT ![t] = "done"]
    /\ UNCHANGED <<tz, listed, kind, query, next_start, klines, df, sink, files,
                   csv_name, served>>

\* One iteration whose batch is empty: `if not batch: break`.  The upstream
\* reports no rows because it holds none in the window, or because it has
\* no data to give for it.
FetchNoRows(t) ==
    /\ CanRequest(t)
    /\ calls' = [calls EXCEPT ![t] = Append(@, Request(t))]
    /\ batches' = [batches EXCEPT ![t] = Append(@, <<>>)]
    /\ pc' = [pc EXCEPT ![t] = "frame"]
    /\ UNCHANGED <<tz, listed, kind, query, next_start, klines, outcome, df, sink,
                   files, csv_name, served>>

\* The failure is swallowed and the loop left with what was accumulated.
FetchError_break(t) ==
    /\ CanRequest(t)
    /\ calls' = [calls EXCEPT ![t] = Append(@, Request(t))]
    /\ pc' = [pc EXCEPT ![t] = "frame"]
    /\ UNCHANGED <<tz, listed, kind, query, next_start, klines, batches, outcome,
                   df, sink, files, csv_name, served>>

\* One iteration whose request fails.  BinanceAPIException is re-raised as
\* RuntimeError(f"Binance API error: {e}"); any other exception of the client
\* (a transport failure) is not caught by the function and propagates as it
\* is.  Every caller's `except Exception` reports str(e) and ends the task.
FetchError(t) ==
    /\ CanRequest(t)
    /\ calls' = [calls EXCEPT ![t] = Append(@, Request(t))]
    /\ \E e \in {[type |-> "RuntimeError", upstream |-> ApiMsg],
                 [type |-> "ConnectionError", upstream |-> TransportMsg]} :
          outcome' = [outcome EXCEPT ![t] = e]
    /\ pc' = [pc EXCEPT ![t] = "done"]
    /\ UNCHANGED <<tz, listed, kind, query, next_start, klines, batches, df, sink,
                   files, csv_name, served>>

\* `while next_start < end_dt` is false: the loop is left.
LoopExit(t) ==
    /\ pc[t] = "loop"
    /\ ~(next_start[t] < query[t].end_dt)
    /\ pc' = [pc EXCEPT ![t] = "frame"]
    /\ UNCHANGED <<tz, listed, kind, query, next_start, klines, calls, batches,
                   outcome, df, sink, files, csv_name, served>>

\* Lines 78-87: build the DataFrame from klines and return it.
BuildFrame(t) ==
    /\ pc[t] = "frame"
    /\ df' = [df EXCEPT ![t] = Normalize(klines[t])]
    /\ outcome' = [outcome EXCEPT ![t] = [type |-> "Series", upstream |-> ""]]
    /\ pc' = [pc EXCEPT ![t] = IF kind[t] = "direct" THEN "done" ELSE "returned"]
    /\ UNCHANGED <<tz, listed, kind, query, next_start, klines, calls, batches,
                   sink, files, csv_name, served>>

\* A caller invokes fetch_historical_data itself, with any two datetimes.
DirectCallFrom(t, Syms, Ivs, Idx) ==
    /\ pc[t] = "idle"
    /\ \E sym \in Syms, iv \in Ivs, a \in Idx, b \in Idx :
          EnterFetch(t, "direct",
                     [symbol |-> sym, interval |-> iv,
                      start_dt |-> a * IntervalMs(iv), end_dt |-> b * IntervalMs(iv)])
    /\ UNCHANGED <<tz, listed, calls, batches, outcome, df, sink, files,
                   csv_name, served>>

\* ------------------------------------------------------------ main.py GUI
\* _on_plot / _on_save hand their task() to _run_threaded, which starts a thread.
RunThreaded(t) ==
    /\ pc[t] = "idle"
    /\ \E k \in {"plot", "save"} : kind' = [kind EXCEPT ![t] = k]
    /\ pc' = [pc EXCEPT ![t] = "gather"]
    /\ UNCHANGED <<tz, listed, query, next_start, klines, calls, batches, outcome,
                   df, sink, files, csv_name, served>>

\* task(): _gather_inputs reads the widgets; start_dt >= end_dt raises
\* ValueError, which the task's except reports; otherwise the fetch is entered.
GatherInputsFrom(t, Syms, Ivs, Days) ==
    /\ pc[t] = "gather"
    /\ \E sym \in Syms, iv \in Ivs, d1 \in Days, d2 \in Days :
          LET start_dt == Combine(d1)
              end_dt   == Combine(d2)
              q == [symbol |-> sym, interval |-> iv,
                    start_dt |-> start_dt, end_dt |-> end_dt]
          IN  IF start_dt >= end_dt
              THEN /\ query' = [query EXCEPT ![t] = q]
                   /\ outcome' = [outcome EXCEPT ![t] =
                                    [type |-> "ValueError", upstream |-> ""]]
                   /\ pc' = [pc EXCEPT ![t] = "done"]
                   /\ UNCHANGED <<kind, klines, next_start>>
              ELSE /\ EnterFetch(t, kind[t], q)
                   /\ UNCHANGED outcome
    /\ UNCHANGED <<tz, listed, calls, batches, df, sink, files, csv_name, served>>

\* _on_plot.task after the fetch: ax.plot(df.index, df['close']); plt.show().
PlotTask(t) ==
    /\ pc[t] = "returned"
    /\ kind[t] = "plot"
    /\ sink' = [sink EXCEPT ![t] = [to |-> "plot", rows |-> df[t]]]
    /\ pc' = [pc EXCEPT ![t] = "done"]
    /\ UNCHANGED <<tz, listed, kind, query, next_start, klines, calls, batches,
                   outcome, df, files, csv_name, served>>

\* _on_save.task after the fetch: the dialog returns a path or nothing;
\* `if file: df.to_csv(file)`.
SaveTask(t) ==
    /\ pc[t] = "returned"
    /\ kind[t] = "save"
    /\ \E file \in BOOLEAN :
          sink' = [sink EXCEPT ![t] =
                     IF file THEN [to |-> "csv", rows |-> df[t]] ELSE NoSink]
    /\ pc' = [pc EXCEPT ![t] = "done"]
    /\ UNCHANGED <<tz, listed, kind, query, next_start, klines, calls, batches,
                   outcome, df, files, csv_name, served>>

\* ----------------------------------------------------------------- web.py
\* datetime.fromisoformat(s) of the i-th step of the interval's grid.
FromIsoFormat(iv, i) == i * IntervalMs(iv)

\* index(), POST: parse the form; start_dt >= end_dt flashes and redirects;
\* otherwise the fetch is entered.
WebPost(t) ==
    /\ pc[t] = "idle"
    /\ \E sym \in Symbols, iv \in {"1h"}, a \in {0, 1}, b \in {1, ConcIdx + 1} :
          LET q == [symbol |-> sym, interval |-> iv,
                    start_dt |-> FromIsoFormat(iv, a), end_dt |-> FromIsoFormat(iv, b)]
          IN  IF q.start_dt >= q.end_dt
              THEN /\ query' = [query EXCEPT ![t] = q]
                   /\ kind' = [kind EXCEPT ![t] = "post"]
                   /\ outcome' = [outcome EXCEPT ![t] =
                                    [type |-> "redirect", upstream |-> ""]]
                   /\ pc' = [pc EXCEPT ![t] = "done"]
                   /\ UNCHANGED <<klines, next_start>>
              ELSE /\ EnterFetch(t, "post", q)
                   /\ UNCHANGED outcome
    /\ UNCHANGED <<tz, listed, calls, batches, df, sink, files, csv_name, served>>

\* index() after the fetch: csv_name = f"{symbol}_{interval}.csv";
\* df.to_csv(csv_name); the name is rendered into the response.
WebExport(t) ==
    /\ pc[t] = "returned"
    /\ kind[t] = "post"
    /\ LET name == <<query[t].symbol, query[t].interval>>
       IN  /\ files' = [files EXCEPT ![name] = [exists |-> TRUE, rows |-> df[t]]]
           /\ csv_name' = [csv_name EXCEPT ![t] = name]
    /\ pc' = [pc EXCEPT ![t] = "done"]
    /\ UNCHANGED <<tz, listed, kind, query, next_start, klines, calls, batches,
                   outcome, df, sink, served>>

\* download(csv_name), followed by the client that got csv_name from its POST.
Download(t) ==
    /\ pc[t] = "done"
    /\ csv_name[t] # NoName
    /\ served[t] = NoFile
    /\ files[csv_name[t]].exists
    /\ served' = [served EXCEPT ![t] = files[csv_name[t]]]
    /\ UNCHANGED <<tz, listed, pc, kind, query, next_start, klines, calls, batches,
                   outcome, df, sink, files, csv_name>>

\* --------------------------------------------------------- specifications
DirectCall(t)   == DirectCallFrom(t, {"BTCUSDT"}, Intervals, 0..MaxIdx)
GatherInputs(t) == GatherInputsFrom(t, {"BTCUSDT"}, Intervals, 0..MaxIdx)

\* One fetch at a time: the function called directly, or one GUI task.
Next ==
    \/ DirectCall(1)
    \/ RunThreaded(1)
    \/ GatherInputs(1)
    \/ FetchRows(1)
    \/ FetchNoRows(1)
    \/ FetchError(1)
    \/ LoopExit(1)
    \/ BuildFrame(1)
    \/ PlotTask(1)
    \/ SaveTask(1)

Spec == Init /\ [][Next]_vars

DirectCallConc(t)   == DirectCallFrom(t, Symbols, {"1h"}, {0, ConcIdx})
GatherInputsConc(t) == GatherInputsFrom(t, Symbols, {"1h"}, {0, 1})

\* Two fetches at once, each on its own thread: GUI tasks started in
\* succession, or independent callers of the function.
NextConc ==
    \E t \in Tasks :
       \/ DirectCallConc(t)
       \/ RunThreaded(t)
       \/ GatherInputsConc(t)
       \/ FetchRows(t)
       \/ FetchNoRows(t)
       \/ FetchError(t)
       \/ LoopExit(t)
       \/ BuildFrame(t)
       \/ PlotTask(t)
       \/ SaveTask(t)

SpecConc == InitConc /\ [][NextConc]_vars

\* Two POSTs handled at once by the web server, and the downloads that follow.
NextWeb ==
    \E t \in Tasks :
       \/ WebPost(t)
       \/ FetchRows(t)
       \/ FetchNoRows(t)
       \/ FetchError(t)
       \/ LoopExit(t)
       \/ BuildFrame(t)
       \/ WebExport(t)
       \/ Download(t)

SpecWeb == InitConc /\ [][NextWeb]_vars

\* ----------------------------------------------------------------- claims
Last(sq) == sq[Len(sq)]

\* The task has a query: it entered the fetch or was turned away at its entry.
HasQuery(t) == pc[t] \notin {"idle", "gather"}

Valid(t) == query[t].start_dt < query[t].end_dt

IsSeries(t) == outcome[t].type = "Series"

RECURSIVE SumLen(_)
SumLen(bs) == IF bs = <<>> THEN 0 ELSE Len(Head(bs)) + SumLen(Tail(bs))

StrictlyAscending(rows) ==
    \A i \in 1..Len(rows), j \in 1..Len(rows) :
        i < j => rows[i].timestamp < rows[j].timestamp

\* C1: after a non-empty batch whose last row has open time T, the start of
\* the next request denotes an instant strictly after T.
C1_NextStartAfterLast ==
    \A t \in Tasks :
        \A i \in 1..Len(batches[t]) :
            (batches[t][i] # <<>> /\ i < Len(calls[t]))
                => calls[t][i + 1].start > Last(batches[t][i]).timestamp

\* C2: a fetch for a valid query that ended on an empty batch returns a
\* Series as long as the batches together, strictly ascending by open time
\* (so without two candles of the same open time).
C2_SeriesSortedNoDuplicates ==
    \A t \in Tasks :
        (HasQuery(t) /\ Valid(t) /\ IsSeries(t)
           /\ batches[t] # <<>> /\ Last(batches[t]) = <<>>)
            => /\ Len(df[t]) = SumLen(batches[t])
               /\ StrictlyAscending(df[t])

\* C3: on every iteration that receives a non-empty batch the cursor
\* next_start strictly increases (which is what makes the fetch terminate).
C3_CursorStrictlyAdvances ==
    [][\A t \in Tasks :
          (Len(batches'[t]) > Len(batches[t]) /\ Last(batches'[t]) # <<>>)
              => next_start'[t] > next_start[t]]_vars

\* C4: a query with start >= end ends in an invalid-range error, issues no
\* request and never yields a Series.
C4_InvalidRangeRejected ==
    \A t \in Tasks :
        (HasQuery(t) /\ ~Valid(t))
            => /\ calls[t] = <<>>
               /\ ~IsSeries(t)
               /\ pc[t] = "done" => outcome[t].type \in {"ValueError", "redirect"}

\* A request of the task failed: it was issued and got no answer.
Failed(t) == Len(calls[t]) > Len(batches[t])

\* C5: once a batch request fails the task is over with an error that
\* carries the upstream's message, the failed request is its last, and no
\* Series is returned, plotted or exported.
C5_FailureAbortsWithoutSeries ==
    \A t \in Tasks :
        Failed(t)
            => /\ pc[t] = "done"
               /\ Len(calls[t]) = Len(batches[t]) + 1
               /\ \/ outcome[t] = [type |-> "RuntimeError", upstream |-> ApiMsg]
                  \/ outcome[t] = [type |-> "ConnectionError", upstream |-> TransportMsg]
               /\ df[t] = <<>>
               /\ sink[t] = NoSink

\* The second of two requests failed after the first had delivered rows.
C5_Witness ==
    \E t \in Tasks :
        /\ Failed(t)
        /\ Len(calls[t]) = 2
        /\ klines[t] # <<>>
        /\ kind[t] = "save"
        /\ pc[t] = "done"

\* C6: an empty batch is the last answer of its fetch and its request the
\* last request; the fetch does not raise, and the Series it returns holds
\* exactly the rows of the batches before it, in order.
C6_EmptyBatchEndsFetch ==
    \A t \in Tasks :
        \A i \in 1..Len(batches[t]) :
            batches[t][i] = <<>>
                => /\ i = Len(batches[t])
                   /\ Len(calls[t]) = i
                   /\ pc[t] \in {"frame", "returned", "done"}
                   /\ outcome[t].type \in {"none", "Series"}
                   /\ IsSeries(t) <=> pc[t] \in {"returned", "done"}
                   /\ IsSeries(t) => df[t] = Normalize(Flatten(SubSeq(batches[t], 1, i - 1)))

\* A fetch returned the rows of two batches after a third, empty one.
C6_Witness ==
    \E t \in Tasks :
        /\ Len(batches[t]) = 3
        /\ Last(batches[t]) = <<>>
        /\ IsSeries(t)
        /\ Len(df[t]) >= 2
        /\ pc[t] = "done"

\* Every empty answer of the upstream was for a window in which it holds no row.
Honest(t) ==
    \A i \in 1..Len(batches[t]) :
        batches[t][i] = <<>> => Window(calls[t][i]) = <<>>

\* The rows the upstream holds for the whole range of the task's query.
InRange(t) ==
    Window([symbol |-> query[t].symbol, interval |-> query[t].interval,
            start |-> query[t].start_dt, end |-> query[t].end_dt])

\* C7: against an upstream that answers every request with the earliest rows
\* of the requested window, the Series returned for a valid query holds each
\* row of [start, end) once, in order, and nothing else.
C7_EveryCandleExactlyOnce ==
    \A t \in Tasks :
        (HasQuery(t) /\ Valid(t) /\ Honest(t) /\ IsSeries(t))
            => df[t] = Normalize(InRange(t))

FourDays == [i \in 1..4 |-> Kline("BTCUSDT", "1d", i - 1)]

\* The scenario: daily candles from 2023-01-01 to 2023-01-05, and a first
\* answer of the four candles of 2023-01-01 .. 2023-01-04.
Scenario(t) ==
    /\ HasQuery(t)
    /\ query[t] = [symbol |-> "BTCUSDT", interval |-> "1d",
                   start_dt |-> 0, end_dt |-> 4 * DayMs]
    /\ batches[t] # <<>>
    /\ batches[t][1] = FourDays

\* C8, as stated: in the scenario one request is issued and no second one,
\* and the fetch returns the four candles.
C8_OneRequest ==
    \A t \in Tasks :
        Scenario(t)
            => /\ Len(calls[t]) = 1
               /\ pc[t] = "done" => (IsSeries(t) /\ df[t] = Normalize(FourDays))

\* C8, amended: in the scenario the cursor after the first batch is still
\* before end, so the loop is not left and asks again; when that second
\* answer is empty the fetch issues exactly two requests and returns exactly
\* the four candles.
C8_SecondRequestThenFour ==
    \A t \in Tasks :
        Scenario(t)
            => /\ Len(calls[t]) = 1 => (pc[t] = "loop" /\ next_start[t] < query[t].end_dt)
               /\ pc[t] \in {"frame", "returned", "done"} => Len(calls[t]) >= 2
               /\ (Len(batches[t]) >= 2 /\ batches[t][2] = <<>>)
                    => /\ Len(calls[t]) = 2
                       /\ IsSeries(t) => df[t] = Normalize(FourDays)
                       /\ pc[t] = "done" => IsSeries(t)

\* The scenario ran to its end: two requests, the second answered empty.
C8_Witness ==
    \E t \in Tasks :
        /\ Scenario(t)
        /\ Len(calls[t]) = 2
        /\ Last(batches[t]) = <<>>
        /\ pc[t] = "done"
        /\ df[t] = Normalize(FourDays)

\* The request a fetch running alone issues as its i-th, given the answers
\* to its earlier requests.
AloneRequest(t, i) ==
    [symbol   |-> query[t].symbol,
     interval |-> query[t].interval,
     start    |-> ParseUtc(Strftime(IF i = 1 THEN query[t].start_dt
                                    ELSE Advance(Last(batches[t][i - 1]).timestamp))),
     end      |-> ParseUtc(Strftime(query[t].end_dt))]

C10_DownloadServesOwnSeries ==
    \A t \in Tasks :
        (served[t].exists /\ \A u \in Tasks : Honest(u))
            => served[t].rows = df[t]

====
